---- MODULE Spec2Model ----
(***************************************************************************)
(* Model of the skip-list map of src/map.go (package skiplist).            *)
(*                                                                         *)
(* The heap of mapElement values is the sequence `heap`; a *mapElement is  *)
(* an index into it and Nil is the nil pointer.  Go slices are indexed     *)
(* from 0, TLA+ sequences from 1: level l of a slice s is s[l + 1].        *)
(*                                                                         *)
(* Spec      : one caller, each public method is one step.                 *)
(* PutSpec   : Spec without calls of Remove.                               *)
(* MutSpec   : one caller calling Put and Remove only.                     *)
(* LevelSpec : one caller calling Put, the heights coming from randomLevels.*)
(* TraceSpec : one caller issuing the calls of the example trace.          *)
(* ConcSpec  : several goroutines, each method split at its lock calls and *)
(*             at each iteration of its splice / unlink loop.              *)
(***************************************************************************)
EXTENDS Integers, Sequences, FiniteSets, TLC

VARIABLES head,      \* Map.head      : slice of maxLevels *mapElement
          heap,      \* every mapElement allocated so far by newElement
          length,    \* Map.length
          readers,   \* Map.mutex     : number of RLock holders
          writer,    \* Map.mutex     : TRUE while Lock is held
          caller,    \* Spec: "ready", or "hung" once a call blocks for ever
          last,      \* Spec: the last call issued and what it returned
          stored,    \* ghost: key -> value of the last Put not followed by a Remove
          removed,   \* ghost: keys whose Remove returned true, no Put since
          tpos,      \* ghost: how many calls of the example trace have returned
          tok,       \* ghost: every one of them returned what the trace says
          raw,       \* ghost: the level randomLevels last computed, before clamping
          pc,        \* ConcSpec: position of each goroutine
          loc        \* ConcSpec: locals of each goroutine

vars == <<head, heap, length, readers, writer, caller, last, stored, removed,
          tpos, tok, raw, pc, loc>>

mapVars   == <<head, heap, length>>
ghostVars == <<stored, removed, tpos, tok, raw>>
seqVars   == <<caller, last>>
lockVars  == <<readers, writer>>
concVars  == <<pc, loc>>

-----------------------------------------------------------------------------
(* Program constants and bounds *)

maxLevels == 32

MaxKey     == 4      \* keys of Spec and ConcSpec are 3..MaxKey
MaxHeight  == 2      \* heights drawn for new nodes are 1..MaxHeight
MaxNodes   == 3      \* at most this many newElement calls
MaxReaders == 1      \* RLock is not called with more than this many holders
NumProcs   == 2      \* goroutines of ConcSpec
ConcNodes  == 2      \* at most this many newElement calls in ConcSpec
MaxRaw     == 34     \* levels computed by randomLevels before clamping are 0..MaxRaw

Nil     == 0
NilVal  == "nil"
Keys    == 3..MaxKey
Vals    == {"a", "b"}
Heights == 1..(IF MaxHeight < maxLevels THEN MaxHeight ELSE maxLevels)
Procs   == 1..NumProcs
TraceKeys == {3, 5}
ConcKeys == {3, 4}
ConcVals == {"a"}

-----------------------------------------------------------------------------
(* NewMap, newElement and the ordering *)

\* the less function handed to NewMap: integer less-than
comp(a, b) == a < b

NewHead == [i \in 1..maxLevels |-> Nil]

\* randomLevels without the "level == 0" test of lines 45-47
randomLevelsKeepsZero(level) ==
    IF level >= maxLevels THEN maxLevels ELSE level

\* randomLevels from line 42 on; level is the value line 41 computes from the
\* random source
randomLevels(level) ==
    LET capped == IF level >= maxLevels THEN maxLevels ELSE level
    IN  IF capped = 0 THEN capped + 1 ELSE capped

newElement(k, v, levels) == [key |-> k, val |-> v, next |-> [i \in 1..levels |-> Nil]]

NewBackPointer == [i \in 1..maxLevels |-> Nil]

-----------------------------------------------------------------------------
(* The search shared by Put, Get and Remove *)

\* Walk without the break of lines 72-74: it never goes back and down
RECURSIVE WalkNeverBreaks(_, _, _, _, _)
WalkNeverBreaks(hp, k, level, e, backPointer) ==
    IF e = Nil THEN [found |-> Nil, backPointer |-> backPointer]
    ELSE IF comp(k, hp[e].key) = comp(hp[e].key, k)
         THEN [found |-> e, backPointer |-> backPointer]
    ELSE WalkNeverBreaks(hp, k, level, hp[e].next[level + 1],
                         [backPointer EXCEPT ![level + 1] = e])

\* the inner loop "for e != nil" at one level
RECURSIVE Walk(_, _, _, _, _)
Walk(hp, k, level, e, backPointer) ==
    IF e = Nil THEN [found |-> Nil, backPointer |-> backPointer]
    ELSE IF comp(k, hp[e].key) = comp(hp[e].key, k)
         THEN [found |-> e, backPointer |-> backPointer]
    ELSE IF comp(k, hp[e].key)
         THEN [found |-> Nil, backPointer |-> backPointer]
    ELSE Walk(hp, k, level, hp[e].next[level + 1],
              [backPointer EXCEPT ![level + 1] = e])

\* where the walk of a level starts
StartOf(hd, level, backPointer) ==
    IF level + 1 = maxLevels \/ backPointer[level + 2] = Nil
    THEN hd[level + 1]
    ELSE backPointer[level + 2]

\* the outer loop "for level := m.maxLevels - 1; level >= 0; level--"
RECURSIVE Descend(_, _, _, _, _)
Descend(hd, hp, k, level, backPointer) ==
    IF level < 0 THEN [found |-> Nil, backPointer |-> backPointer]
    ELSE LET r == Walk(hp, k, level, StartOf(hd, level, backPointer), backPointer)
         IN  IF r.found # Nil THEN r
             ELSE Descend(hd, hp, k, level - 1, r.backPointer)

Search(hd, hp, k) == Descend(hd, hp, k, maxLevels - 1, NewBackPointer)

-----------------------------------------------------------------------------
(* Put *)

\* SpliceLevel with line 85 left out: a new first element forgets the old one
SpliceLevelDropsOldHead(hd, hp, e, backPointer, level) ==
    IF backPointer[level + 1] = Nil
    THEN [head |-> [hd EXCEPT ![level + 1] = e], heap |-> hp]
    ELSE LET b == backPointer[level + 1]
         IN  [head |-> hd,
              heap |-> [hp EXCEPT ![e].next[level + 1] = hp[b].next[level + 1],
                                  ![b].next[level + 1] = e]]

\* SpliceLevel with line 88 reading "e.next[level] = backPointer[level]"
SpliceLevelLinksBack(hd, hp, e, backPointer, level) ==
    IF backPointer[level + 1] = Nil
    THEN [head |-> [hd EXCEPT ![level + 1] = e],
          heap |-> [hp EXCEPT ![e].next[level + 1] = hd[level + 1]]]
    ELSE LET b == backPointer[level + 1]
         IN  [head |-> hd,
              heap |-> [hp EXCEPT ![e].next[level + 1] = b,
                                  ![b].next[level + 1] = e]]

\* SpliceLevel with line 86 reading "m.head[level+1] = e"
SpliceLevelOneLevelUp(hd, hp, e, backPointer, level) ==
    IF backPointer[level + 1] = Nil
    THEN [head |-> IF level + 2 <= maxLevels THEN [hd EXCEPT ![level + 2] = e] ELSE hd,
          heap |-> [hp EXCEPT ![e].next[level + 1] = hd[level + 1]]]
    ELSE LET b == backPointer[level + 1]
         IN  [head |-> hd,
              heap |-> [hp EXCEPT ![e].next[level + 1] = hp[b].next[level + 1],
                                  ![b].next[level + 1] = e]]

\* one iteration of the loop that connects the new element e at `level`
SpliceLevel(hd, hp, e, backPointer, level) ==
    IF backPointer[level + 1] = Nil
    THEN [head |-> [hd EXCEPT ![level + 1] = e],
          heap |-> [hp EXCEPT ![e].next[level + 1] = hd[level + 1]]]
    ELSE LET b == backPointer[level + 1]
         IN  [head |-> hd,
              heap |-> [hp EXCEPT ![e].next[level + 1] = hp[b].next[level + 1],
                                  ![b].next[level + 1] = e]]

RECURSIVE Splice(_, _, _, _, _)
Splice(hd, hp, e, backPointer, level) ==
    IF level >= Len(hp[e].next) THEN [head |-> hd, heap |-> hp]
    ELSE LET s == SpliceLevel(hd, hp, e, backPointer, level)
         IN  Splice(s.head, s.heap, e, backPointer, level + 1)

\* the body of Put between Lock and Unlock; h is what randomLevels returns
PutBody(hd, hp, len, k, v, h) ==
    LET s == Search(hd, hp, k)
    IN  IF s.found # Nil
        THEN [head |-> hd, heap |-> [hp EXCEPT ![s.found].val = v],
              length |-> len, ret |-> TRUE]
        ELSE LET e  == Len(hp) + 1
                 sp == Splice(hd, Append(hp, newElement(k, v, h)), e, s.backPointer, 0)
             IN  [head |-> sp.head, heap |-> sp.heap, length |-> len + 1, ret |-> FALSE]

-----------------------------------------------------------------------------
(* Len and Get *)

RECURSIVE Count(_, _, _)
Count(hp, e, ret) == IF e = Nil THEN ret ELSE Count(hp, hp[e].next[1], ret + 1)

LenBody(hd, hp) == Count(hp, hd[1], 0)

GetBody(hd, hp, k) ==
    LET s == Search(hd, hp, k)
    IN  IF s.found # Nil THEN <<hp[s.found].val, TRUE>> ELSE <<NilVal, FALSE>>

-----------------------------------------------------------------------------
(* Remove *)

\* one iteration of the loop that unlinks e at `level`
UnlinkLevel(hd, hp, e, backPointer, level) ==
    IF backPointer[level + 1] = Nil
    THEN [head |-> [hd EXCEPT ![level + 1] = hp[e].next[level + 1]], heap |-> hp]
    ELSE [head |-> hd,
          heap |-> [hp EXCEPT ![backPointer[level + 1]].next[level + 1] =
                                  hp[e].next[level + 1]]]

RECURSIVE Unlink(_, _, _, _, _)
Unlink(hd, hp, e, backPointer, level) ==
    IF level >= Len(hp[e].next) THEN [head |-> hd, heap |-> hp]
    ELSE LET s == UnlinkLevel(hd, hp, e, backPointer, level)
         IN  Unlink(s.head, s.heap, e, backPointer, level + 1)

\* the body of Remove between Lock and Unlock
RemoveBody(hd, hp, len, k) ==
    LET s == Search(hd, hp, k)
    IN  IF s.found # Nil
        THEN LET u == Unlink(hd, hp, s.found, s.backPointer, 0)
             IN  [head |-> u.head, heap |-> u.heap, length |-> len - 1, ret |-> TRUE]
        ELSE [head |-> hd, heap |-> hp, length |-> len, ret |-> FALSE]

-----------------------------------------------------------------------------
(* sync.RWMutex *)

\* CanLock taking no account of the readers
CanLockDespiteReaders == ~writer

\* Lock returns only when nobody holds the mutex
CanLock == readers = 0 /\ ~writer

\* RLock returns only when no writer holds the mutex
CanRLock == ~writer

\* bound on the reader count
RLockBound == readers <= MaxReaders

-----------------------------------------------------------------------------
(* Ghost state *)

NoCall == [op |-> "none", k |-> 0, v |-> NilVal, b |-> FALSE, val |-> NilVal, n |-> 0]

Call(op, k, v, b, val, n) == [op |-> op, k |-> k, v |-> v, b |-> b, val |-> val, n |-> n]

\* the example trace: the calls, and what each is said to return
TraceCalls ==
    << Call("Put", 5, "a", FALSE, NilVal, 0),
       Call("Put", 3, "b", FALSE, NilVal, 0),
       Call("Put", 5, "c", TRUE, NilVal, 0),
       Call("Get", 5, NilVal, TRUE, "c", 0),
       Call("Len", 0, NilVal, FALSE, NilVal, 2),
       Call("Remove", 3, NilVal, TRUE, NilVal, 0),
       Call("Len", 0, NilVal, FALSE, NilVal, 1),
       Call("Get", 3, NilVal, FALSE, NilVal, 0) >>

-----------------------------------------------------------------------------
(* Spec: a single caller *)

Init ==
    /\ head = NewHead
    /\ heap = << >>
    /\ length = 0
    /\ readers = 0
    /\ writer = FALSE
    /\ caller = "ready"
    /\ last = NoCall
    /\ stored = [k \in Keys \cup TraceKeys |-> NilVal]
    /\ removed = {}
    /\ tpos = 0
    /\ tok = TRUE
    /\ raw = 0
    /\ pc = [p \in Procs |-> "idle"]
    /\ loc = [p \in Procs |-> [k |-> 0, v |-> NilVal, e |-> Nil, level |-> 0,
                               backPointer |-> << >>]]

\* m.mutex.Lock() with the mutex held: the only caller waits for itself
Hang ==
    /\ caller' = "hung"
    /\ UNCHANGED <<mapVars, readers, writer, last, stored, removed, concVars>>

PutOp(k, v, h) ==
    /\ caller = "ready"
    /\ IF CanLock
       THEN \E r \in {PutBody(head, heap, length, k, v, h)} :
                /\ r.ret \/ Len(heap) < MaxNodes
                /\ head' = r.head
                /\ heap' = r.heap
                /\ length' = r.length
                /\ last' = Call("Put", k, v, r.ret, NilVal, 0)
                /\ stored' = [stored EXCEPT ![k] = v]
                /\ removed' = removed \ {k}
                /\ UNCHANGED <<readers, writer, caller, concVars>>
       ELSE Hang

RemoveOp(k) ==
    /\ caller = "ready"
    /\ IF CanLock
       THEN \E r \in {RemoveBody(head, heap, length, k)} :
                /\ head' = r.head
                /\ heap' = r.heap
                /\ length' = r.length
                /\ last' = Call("Remove", k, NilVal, r.ret, NilVal, 0)
                /\ stored' = [stored EXCEPT ![k] = NilVal]
                /\ removed' = IF r.ret THEN removed \cup {k} ELSE removed
                /\ UNCHANGED <<readers, writer, caller, concVars>>
       ELSE Hang

\* GetOp with the "e.val = v" of Put's search left in: a hit clears the value
GetOpClearsValue(k) ==
    /\ caller = "ready"
    /\ CanRLock
    /\ RLockBound
    /\ \E s \in {Search(head, heap, k)} :
           /\ readers' = IF s.found # Nil THEN readers + 1 ELSE readers
           /\ heap' = IF s.found # Nil THEN [heap EXCEPT ![s.found].val = NilVal] ELSE heap
           /\ last' = Call("Get", k, NilVal, s.found # Nil, NilVal, 0)
    /\ UNCHANGED <<head, length, writer, caller, stored, removed, concVars>>

\* Get returns without RUnlock when it finds the key
GetOp(k) ==
    /\ caller = "ready"
    /\ CanRLock
    /\ RLockBound
    /\ \E r \in {GetBody(head, heap, k)} :
           /\ readers' = IF r[2] THEN readers + 1 ELSE readers
           /\ last' = Call("Get", k, NilVal, r[2], r[1], 0)
    /\ UNCHANGED <<mapVars, writer, caller, stored, removed, concVars>>

LenOp ==
    /\ caller = "ready"
    /\ CanRLock
    /\ RLockBound
    /\ last' = Call("Len", 0, NilVal, FALSE, NilVal, LenBody(head, heap))
    /\ UNCHANGED <<mapVars, readers, writer, caller, stored, removed, concVars>>

\* a call of the single caller of Spec
CallPut(k, v, h) == PutOp(k, v, h) /\ UNCHANGED <<tpos, tok, raw>>
CallRemove(k)    == RemoveOp(k) /\ UNCHANGED <<tpos, tok, raw>>
CallGet(k)       == GetOp(k) /\ UNCHANGED <<tpos, tok, raw>>
CallLen          == LenOp /\ UNCHANGED <<tpos, tok, raw>>

Next ==
    \/ \E k \in Keys, v \in Vals, h \in Heights : CallPut(k, v, h)
    \/ \E k \in Keys : CallRemove(k)
    \/ \E k \in Keys : CallGet(k)
    \/ CallLen

Spec == Init /\ [][Next]_vars

\* PutSpec: the single caller never calls Remove
PutNext ==
    \/ \E k \in Keys, v \in Vals, h \in Heights : CallPut(k, v, h)
    \/ \E k \in Keys : CallGet(k)
    \/ CallLen

PutSpec == Init /\ [][PutNext]_vars

\* MutSpec: the single caller calls Put and Remove only, always with one value
MutNext ==
    \/ \E k \in Keys, h \in Heights : CallPut(k, "a", h)
    \/ \E k \in Keys : CallRemove(k)

MutSpec == Init /\ [][MutNext]_vars

\* LevelSpec: the single caller calls Put; line 80 gives a new element the
\* height randomLevels makes of the level r computed at line 41
LevelPut(k, v, r) ==
    /\ PutOp(k, v, randomLevels(r))
    /\ raw' = IF last'.b THEN raw ELSE r
    /\ UNCHANGED <<tpos, tok>>

LevelNext == \E k \in TraceKeys, r \in 0..MaxRaw : LevelPut(k, "a", r)

LevelSpec == Init /\ [][LevelNext]_vars

-----------------------------------------------------------------------------
(* TraceSpec: the single caller issues the calls of the example trace, in   *)
(* order, the two new nodes getting any height randomLevels can return      *)

\* the next call of the trace is op
TraceAt(op) == tpos < Len(TraceCalls) /\ TraceCalls[tpos + 1].op = op

\* the call returned (tpos advances, tok compares what it returned) or blocks
TraceAdvance ==
    IF caller' = "hung"
    THEN UNCHANGED <<tpos, tok, raw>>
    ELSE /\ tpos' = tpos + 1
         /\ tok' = (tok /\ last' = TraceCalls[tpos + 1])
         /\ UNCHANGED raw

TracePut(h) ==
    /\ TraceAt("Put")
    /\ PutOp(TraceCalls[tpos + 1].k, TraceCalls[tpos + 1].v, h)
    /\ TraceAdvance

TraceGet == TraceAt("Get") /\ GetOp(TraceCalls[tpos + 1].k) /\ TraceAdvance

TraceLen == TraceAt("Len") /\ LenOp /\ TraceAdvance

TraceRemove == TraceAt("Remove") /\ RemoveOp(TraceCalls[tpos + 1].k) /\ TraceAdvance

TraceNext ==
    \/ \E h \in 1..maxLevels : TracePut(h)
    \/ TraceGet
    \/ TraceLen
    \/ TraceRemove

TraceSpec == Init /\ [][TraceNext]_vars

-----------------------------------------------------------------------------
(* ConcSpec: goroutines calling the map concurrently.                       *)
(* A blocked Lock or RLock is a disabled step.  pc[p] is "idle" outside a   *)
(* call and names the loop the goroutine is in while it holds the mutex.    *)

NoLocals == [k |-> 0, v |-> NilVal, e |-> Nil, level |-> 0,
             backPointer |-> << >>]

Return(p) ==
    /\ pc' = [pc EXCEPT ![p] = "idle"]
    /\ loc' = [loc EXCEPT ![p] = NoLocals]

\* Put: m.mutex.Lock()
PutLock(p, k, v) ==
    /\ pc[p] = "idle"
    /\ UNCHANGED <<ghostVars, seqVars>>
    /\ CanLock
    /\ Len(heap) < ConcNodes \/ Search(head, heap, k).found # Nil
    /\ writer' = TRUE
    /\ pc' = [pc EXCEPT ![p] = "put_search"]
    /\ loc' = [loc EXCEPT ![p] = [NoLocals EXCEPT !.k = k, !.v = v]]
    /\ UNCHANGED <<mapVars, readers>>

\* Put: the search; on a hit overwrite, Unlock and return true,
\* otherwise create the new element
PutSearch(p, h) ==
    /\ pc[p] = "put_search"
    /\ UNCHANGED <<ghostVars, seqVars>>
    /\ \E s \in {Search(head, heap, loc[p].k)} :
          IF s.found # Nil
          THEN /\ heap' = [heap EXCEPT ![s.found].val = loc[p].v]
               /\ writer' = FALSE
               /\ Return(p)
               /\ UNCHANGED <<head, length, readers>>
          ELSE /\ heap' = Append(heap, newElement(loc[p].k, loc[p].v, h))
               /\ pc' = [pc EXCEPT ![p] = "put_splice"]
               /\ loc' = [loc EXCEPT ![p].e = Len(heap) + 1,
                                     ![p].backPointer = s.backPointer,
                                     ![p].level = 0]
               /\ UNCHANGED <<head, length, readers, writer>>

\* Put: one iteration of the connecting loop, or after it length++, Unlock, return false
PutSplice(p) ==
    /\ pc[p] = "put_splice"
    /\ UNCHANGED <<ghostVars, seqVars>>
    /\ IF loc[p].level < Len(heap[loc[p].e].next)
       THEN \E s \in {SpliceLevel(head, heap, loc[p].e, loc[p].backPointer, loc[p].level)} :
               /\ head' = s.head
               /\ heap' = s.heap
               /\ loc' = [loc EXCEPT ![p].level = loc[p].level + 1]
               /\ UNCHANGED <<length, readers, writer, pc>>
       ELSE /\ length' = length + 1
            /\ writer' = FALSE
            /\ Return(p)
            /\ UNCHANGED <<head, heap, readers>>

\* Remove: m.mutex.Lock()
RemoveLock(p, k) ==
    /\ pc[p] = "idle"
    /\ UNCHANGED <<ghostVars, seqVars>>
    /\ CanLock
    /\ writer' = TRUE
    /\ pc' = [pc EXCEPT ![p] = "remove_search"]
    /\ loc' = [loc EXCEPT ![p] = [NoLocals EXCEPT !.k = k]]
    /\ UNCHANGED <<mapVars, readers>>

\* Remove: the search; on a miss Unlock and return false
RemoveSearch(p) ==
    /\ pc[p] = "remove_search"
    /\ UNCHANGED <<ghostVars, seqVars>>
    /\ \E s \in {Search(head, heap, loc[p].k)} :
          IF s.found # Nil
          THEN /\ pc' = [pc EXCEPT ![p] = "remove_unlink"]
               /\ loc' = [loc EXCEPT ![p].e = s.found,
                                     ![p].backPointer = s.backPointer,
                                     ![p].level = 0]
               /\ UNCHANGED <<mapVars, readers, writer>>
          ELSE /\ writer' = FALSE
               /\ Return(p)
               /\ UNCHANGED <<mapVars, readers>>

\* Remove: one iteration of the unlinking loop, or after it length--, Unlock, return true
RemoveUnlink(p) ==
    /\ pc[p] = "remove_unlink"
    /\ UNCHANGED <<ghostVars, seqVars>>
    /\ IF loc[p].level < Len(heap[loc[p].e].next)
       THEN \E s \in {UnlinkLevel(head, heap, loc[p].e, loc[p].backPointer, loc[p].level)} :
               /\ head' = s.head
               /\ heap' = s.heap
               /\ loc' = [loc EXCEPT ![p].level = loc[p].level + 1]
               /\ UNCHANGED <<length, readers, writer, pc>>
       ELSE /\ length' = length - 1
            /\ writer' = FALSE
            /\ Return(p)
            /\ UNCHANGED <<head, heap, readers>>

\* Get: m.mutex.RLock()
GetLock(p, k) ==
    /\ pc[p] = "idle"
    /\ UNCHANGED <<ghostVars, seqVars>>
    /\ CanRLock
    /\ RLockBound
    /\ readers' = readers + 1
    /\ pc' = [pc EXCEPT ![p] = "get_search"]
    /\ loc' = [loc EXCEPT ![p] = [NoLocals EXCEPT !.k = k]]
    /\ UNCHANGED <<mapVars, writer>>

\* Get: the search; RUnlock only on a miss
GetSearch(p) ==
    /\ pc[p] = "get_search"
    /\ UNCHANGED <<ghostVars, seqVars>>
    /\ readers' = IF GetBody(head, heap, loc[p].k)[2] THEN readers ELSE readers - 1
    /\ Return(p)
    /\ UNCHANGED <<mapVars, writer>>

\* Len: m.mutex.RLock()
LenLock(p) ==
    /\ pc[p] = "idle"
    /\ UNCHANGED <<ghostVars, seqVars>>
    /\ CanRLock
    /\ RLockBound
    /\ readers' = readers + 1
    /\ pc' = [pc EXCEPT ![p] = "len_count"]
    /\ UNCHANGED <<mapVars, writer, loc>>

\* Len: the counting loop, RUnlock
LenCount(p) ==
    /\ pc[p] = "len_count"
    /\ UNCHANGED <<ghostVars, seqVars>>
    /\ readers' = readers - 1
    /\ Return(p)
    /\ UNCHANGED <<mapVars, writer>>

ConcNext ==
    \/ \E p \in Procs, k \in ConcKeys, v \in ConcVals : PutLock(p, k, v)
    \/ \E p \in Procs, h \in Heights : PutSearch(p, h)
    \/ \E p \in Procs : PutSplice(p)
    \/ \E p \in Procs, k \in ConcKeys : RemoveLock(p, k)
    \/ \E p \in Procs : RemoveSearch(p)
    \/ \E p \in Procs : RemoveUnlink(p)
    \/ \E p \in Procs, k \in ConcKeys : GetLock(p, k)
    \/ \E p \in Procs : GetSearch(p)
    \/ \E p \in Procs : LenLock(p)
    \/ \E p \in Procs : LenCount(p)

ConcSpec == Init /\ [][ConcNext]_vars

-----------------------------------------------------------------------------
(* What a caller observes of the current state *)

LenNow  == LenBody(head, heap)
GetNow(k) == GetBody(head, heap, k)
Miss == <<NilVal, FALSE>>
IsStored(k) == stored[k] # NilVal

\* this step is a call of op that returned
Returned(op) == caller' = "ready" /\ last'.op = op /\ vars' # vars

-----------------------------------------------------------------------------
(* Claims *)

\* C1: Remove(k) on a stored key returns true and Len() afterwards is one
\* less than Len() before.
C1_RemoveStoredReturnsTrueLenDown ==
    [][ (Returned("Remove") /\ IsStored(last'.k))
        => (last'.b /\ LenBody(head', heap') = LenNow - 1) ]_vars

\* C2: after Remove(k) returned true, Get(k) returns (nil, false) until the
\* next Put(k).
C2_GetAfterRemoveMisses ==
    \A k \in removed : GetNow(k) = Miss

\* C3: Remove(k) leaves what Get(k2) returns unchanged for every other key k2.
C3_RemoveKeepsOtherKeys ==
    [][ Returned("Remove")
        => \A k2 \in Keys \ {last'.k} : GetBody(head', heap', k2) = GetNow(k2) ]_vars

\* C4: after Put calls only (PutSpec), Get(k) returns (v, true) with v the
\* value of the last Put(k, v), and (nil, false) for a key never Put.
C4_PutOnlyGetReturnsLastValue ==
    \A k \in Keys : GetNow(k) = IF IsStored(k) THEN <<stored[k], TRUE>> ELSE Miss

\* C4 witness: every key stored, nodes of different heights,
\* and the last call overwrote a value put before
C4_Witness ==
    /\ \A k \in Keys : IsStored(k)
    /\ \E i, j \in 1..Len(heap) : Len(heap[i].next) < Len(heap[j].next)
    /\ last.op = "Put" /\ last.b
    /\ \E k \in Keys : stored[k] # stored[last.k]

\* C5: Put(k, v2) on a stored key returns true, leaves Len() unchanged, and
\* Get(k) afterwards returns (v2, true).
C5_PutStoredOverwrites ==
    [][ (Returned("Put") /\ IsStored(last'.k))
        => (last'.b /\ LenBody(head', heap') = LenNow /\ GetBody(head', heap', last'.k) = <<last'.v, TRUE>>) ]_vars

\* C6: Put(k, v) on a key that is not stored returns false and Len()
\* afterwards is one more than Len() before.
C6_PutFreshInserts ==
    [][ (Returned("Put") /\ ~IsStored(last'.k))
        => (~last'.b /\ LenBody(head', heap') = LenNow + 1) ]_vars

\* C7: Remove(k) on a key that is not stored returns false and leaves Len()
\* unchanged.
C7_RemoveAbsentReturnsFalse ==
    [][ (Returned("Remove") /\ ~IsStored(last'.k))
        => (~last'.b /\ LenBody(head', heap') = LenNow) ]_vars

\* C8: every call of the example trace returns, and returns what the trace
\* says, for every height of the two nodes.
C8_TraceReturnsAsStated ==
    caller # "hung" /\ tok

\* C9: when no operation is in progress the mutex is held by nobody, neither
\* shared nor exclusive.
C9_LockFreeWhenIdle ==
    (caller = "ready" /\ \A p \in Procs : pc[p] = "idle")
        => (readers = 0 /\ ~writer)

\* a goroutine is inside the critical section of Put or Remove
InWrite(p) == pc[p] \in {"put_search", "put_splice", "remove_search", "remove_unlink"}

\* a goroutine is inside the critical section of Get or Len
InRead(p) == pc[p] \in {"get_search", "len_count"}

\* some head slot or some element's link of this level points to e
LinkedAt(e, level) ==
    \/ head[level + 1] = e
    \/ \E n \in 1..Len(heap) : level < Len(heap[n].next) /\ heap[n].next[level + 1] = e

\* e is linked at some of its levels and not at others
PartlyLinked(e) ==
    \E l1, l2 \in 0..(Len(heap[e].next) - 1) : LinkedAt(e, l1) /\ ~LinkedAt(e, l2)

\* C10: no reader is inside its critical section together with a writer, no
\* two writers are inside together, and so while a Get or Len is inside, no
\* Put has its new node linked at some of its levels and not yet at others.
C10_ReadersExcludeWriters ==
    \A p \in Procs :
        /\ InWrite(p) => \A q \in Procs \ {p} : ~InWrite(q) /\ ~InRead(q)
        /\ InRead(p) => \A q \in Procs :
                            pc[q] = "put_splice" => ~PartlyLinked(loc[q].e)

\* C10 witness: a Put is between two iterations of its connecting loop, its
\* node linked at level 0 and not yet at level 1, next to an older element
C10_Witness ==
    \E p \in Procs :
        /\ pc[p] = "put_splice"
        /\ PartlyLinked(loc[p].e)
        /\ Len(heap) >= 2
        /\ \A q \in Procs \ {p} : pc[q] = "idle"

-----------------------------------------------------------------------------
(* The chains of the stored structure *)

\* the elements met by following next[level] from e
RECURSIVE ChainFrom(_, _, _)
ChainFrom(hp, e, level) ==
    IF e = Nil THEN << >>
    ELSE <<e>> \o ChainFrom(hp, hp[e].next[level + 1], level)

\* the elements met by following next[level] from head[level]
Chain(hd, hp, level) == ChainFrom(hp, hd[level + 1], level)

\* C11: the keys met by following next[0] from head[0] are in strictly
\* ascending order.
C11_LevelZeroAscending ==
    LET c == Chain(head, heap, 0)
    IN  \A i \in 1..(Len(c) - 1) : comp(heap[c[i]].key, heap[c[i + 1]].key)

\* C11 witness: two keys in the level-0 chain after a key was removed and
\* put again
C11_Witness ==
    /\ Len(heap) >= 3
    /\ Len(Chain(head, heap, 0)) >= 2
    /\ last.op = "Put" /\ ~last.b

\* C12: a Get (hit or miss) or a Len leaves every head slot, every element's
\* key, value and links, and the length counter unchanged.
C12_GetLenReadOnly ==
    [][ (Returned("Get") \/ Returned("Len"))
        => (head' = head /\ heap' = heap /\ length' = length) ]_vars

\* C12 witness: a Get has just found its key among two stored elements
C12_Witness ==
    /\ last.op = "Get" /\ last.b
    /\ Len(Chain(head, heap, 0)) >= 2
    /\ readers > 0

\* the element before e in the level chain, Nil when e is its first element
\* (-1 when e is not in that chain)
PredAt(hd, hp, e, level) ==
    LET c == Chain(hd, hp, level)
    IN  IF \E i \in 1..Len(c) : c[i] = e
        THEN LET i == CHOOSE j \in 1..Len(c) : c[j] = e
             IN  IF i = 1 THEN Nil ELSE c[i - 1]
        ELSE -1

\* C13: when the search of Remove stops at the element equal to the key, for
\* every level l below the element's height backPointer[l] is the element's
\* predecessor in the level-l chain, nil only for the first element.
C13_RemoveBackPointersArePredecessors ==
    [][ (Returned("Remove") /\ last'.b)
        => LET s == Search(head, heap, last'.k)
           IN  \A l \in 0..(Len(heap[s.found].next) - 1) :
                   s.backPointer[l + 1] = PredAt(head, heap, s.found, l) ]_vars

\* a is b with some elements left out
RECURSIVE IsSubseq(_, _)
IsSubseq(a, b) ==
    IF a = << >> THEN TRUE
    ELSE IF b = << >> THEN FALSE
    ELSE IF Head(a) = Head(b) THEN IsSubseq(Tail(a), Tail(b))
    ELSE IsSubseq(a, Tail(b))

\* C14: for every level l > 0 the chain of level l is a subsequence of the
\* chain of level l - 1.
C14_ChainsAreNested ==
    \A l \in 1..(maxLevels - 1) :
        IsSubseq(Chain(head, heap, l), Chain(head, heap, l - 1))

\* C15: the length counter equals the number of elements in the level-0
\* chain, which is what Len() returns.
C15_LengthIsLen ==
    length = LenBody(head, heap)

\* following next[level] from e reaches nil in at most fuel steps
RECURSIVE EndsWithin(_, _, _, _)
EndsWithin(hp, e, level, fuel) ==
    IF e = Nil THEN TRUE
    ELSE IF fuel = 0 THEN FALSE
    ELSE EndsWithin(hp, hp[e].next[level + 1], level, fuel - 1)

\* some chain is not a subsequence of the chain below it
Damaged ==
    \E l \in 1..(maxLevels - 1) :
        ~IsSubseq(Chain(head, heap, l), Chain(head, heap, l - 1))

\* C16: every traversal ends: following next[l] from any head slot or from
\* any element that has a level l reaches nil within as many steps as there
\* are elements, so no chain a search or Len follows contains a cycle.
C16_TraversalsTerminate ==
    /\ \A l \in 0..(maxLevels - 1) : EndsWithin(heap, head[l + 1], l, Len(heap))
    /\ \A n \in 1..Len(heap) : \A l \in 0..(Len(heap[n].next) - 1) :
           EndsWithin(heap, n, l, Len(heap))

\* C16 witness: a Put has searched and spliced in a structure a Remove left
\* with a chain that skips elements of the chain above it
C16_Witness ==
    /\ Damaged
    /\ last.op = "Put" /\ ~last.b
    /\ Len(heap) >= 3

\* C17: every head[l] and every next[l] is nil or an element with more than
\* l links, and so is every back pointer a search collects at level l.
C17_LinksStayBelowHeight ==
    /\ \A l \in 0..(maxLevels - 1) :
           head[l + 1] # Nil => Len(heap[head[l + 1]].next) > l
    /\ \A n \in 1..Len(heap) : \A l \in 0..(Len(heap[n].next) - 1) :
           heap[n].next[l + 1] # Nil => Len(heap[heap[n].next[l + 1]].next) > l
    /\ \A k \in Keys : \A l \in 0..(maxLevels - 1) :
           LET b == Search(head, heap, k).backPointer[l + 1]
           IN  b # Nil => Len(heap[b].next) > l

\* C17 witness: a Remove has unlinked an element while elements of both
\* heights were linked
C17_Witness ==
    /\ last.op = "Remove" /\ last.b
    /\ head[2] # Nil
    /\ \E n \in 1..Len(heap) : Len(heap[n].next) = 1 /\ LinkedAt(n, 0)

\* the height the claim gives a raw level r
Clamped(r) == IF r = 0 THEN 1 ELSE IF r >= maxLevels THEN maxLevels ELSE r

\* C18: the element Put created last has the height the clamping rule gives
\* the raw level drawn for it (1 for 0, maxLevels from maxLevels on, the raw
\* level otherwise), and every element has between 1 and maxLevels links.
C18_HeightsAreClamped ==
    /\ \A n \in 1..Len(heap) : Len(heap[n].next) \in 1..maxLevels
    /\ Len(heap) > 0 => Len(heap[Len(heap)].next) = Clamped(raw)

\* C18 witness: an element of a raw level above maxLevels was put after an
\* element of height 1
C18_Witness ==
    /\ Len(heap) = 2
    /\ raw > maxLevels
    /\ Len(heap[1].next) = 1
    /\ Len(heap[2].next) = maxLevels

====
